---------------------------- MODULE Spec2Model ----------------------------
(***************************************************************************)
(* Model of src/churn_risk_snapshot.py: the churn-rate-by-payment-status   *)
(* report.  A string is a sequence of one-character strings; a table       *)
(* (DataFrame) is a record of its column labels and, column by column, its *)
(* cells; table objects live in a heap so that a copy and an alias differ. *)
(* astype(str) follows the object-dtype behaviour of pandas 1.x/2.x: a     *)
(* missing value becomes the string "nan".                                 *)
(***************************************************************************)
EXTENDS Integers, Sequences, FiniteSets, TLC

VARIABLES
    pc,        \* position of the run
    heap,      \* the table objects created so far, in order of creation
    dfref,     \* main's local `df`: index into heap, 0 when unbound
    err,       \* the exception that ended the run, or NoError
    payload,   \* the diagnostic payload of that exception
    summary,   \* main's local `summary` (rows of the KPI table)
    fs,        \* the files the run touches
    figs,      \* pyplot's open figures
    nextfig    \* pyplot's next figure number

vars == <<pc, heap, dfref, err, payload, summary, fs, figs, nextfig>>

---------------------------------------------------------------------------
(* Bounds of the model.                                                    *)

MaxLen == 4          \* longest column label enumerated for to_snake_case
MaxChurnRows == 3    \* most rows of a table drawn for the churn mapper
MaxPayRows == 3      \* most rows of a table drawn for the aggregator
MaxFill == 16        \* most filler columns of a drawn table
MaxBad == 12         \* most distinct unmappable churn values of a drawn table

---------------------------------------------------------------------------
(* Characters and strings.                                                 *)

UpperChars == <<"A","B","C","D","E","F","G","H","I","J","K","L","M",
                "N","O","P","Q","R","S","T","U","V","W","X","Y","Z">>
LowerChars == <<"a","b","c","d","e","f","g","h","i","j","k","l","m",
                "n","o","p","q","r","s","t","u","v","w","x","y","z">>
DigitChars == <<"0","1","2","3","4","5","6","7","8","9">>

\* The characters of the model in code-point order (what str comparison uses).
CharOrder == <<"\t", "\n", " ", "(", ")", "-", "/">> \o DigitChars \o <<"?">>
             \o UpperChars \o <<"_">> \o LowerChars

Range(s) == {s[i] : i \in DOMAIN s}

Ord(c) == CHOOSE i \in DOMAIN CharOrder : CharOrder[i] = c

IsSpace(c) == c \in {" ", "\t", "\n"}

IsWord(c) == c \in Range(UpperChars) \cup Range(LowerChars)
                   \cup Range(DigitChars) \cup {"_"}

\* str.lower() on one character
LowerChar(c) ==
    IF \E i \in DOMAIN UpperChars : UpperChars[i] = c
    THEN LowerChars[CHOOSE i \in DOMAIN UpperChars : UpperChars[i] = c]
    ELSE c

\* str.lower()
StrLower(s) == [i \in DOMAIN s |-> LowerChar(s[i])]

RECURSIVE LStrip(_)
LStrip(s) == IF s # <<>> /\ IsSpace(Head(s)) THEN LStrip(Tail(s)) ELSE s

RECURSIVE RStrip(_)
RStrip(s) == IF s # <<>> /\ IsSpace(s[Len(s)])
             THEN RStrip(SubSeq(s, 1, Len(s) - 1)) ELSE s

\* str.strip(): surrounding whitespace removed
StrStrip(s) == RStrip(LStrip(s))

\* re.sub(r"[^\w\s]", "", name)
RemovePunct(s) == SelectSeq(s, LAMBDA c : IsWord(c) \/ IsSpace(c))

\* re.sub(r"\s+", "_", name): each maximal run of whitespace becomes one "_"
RECURSIVE SpacesToUnderscore(_)
SpacesToUnderscore(s) ==
    IF s = <<>> THEN <<>>
    ELSE IF IsSpace(Head(s))
         THEN <<"_">> \o SpacesToUnderscore(LStrip(s))
         ELSE <<Head(s)>> \o SpacesToUnderscore(Tail(s))

\* to_snake_case without .lower()
to_snake_case_nolower(name) == SpacesToUnderscore(RemovePunct(StrStrip(name)))

\* to_snake_case(name): strip, lower, drop punctuation, whitespace runs to "_"
to_snake_case(name) ==
    SpacesToUnderscore(RemovePunct(StrLower(StrStrip(name))))

\* s < t in code-point order
RECURSIVE StrLess(_, _)
StrLess(s, t) ==
    IF t = <<>> THEN FALSE
    ELSE IF s = <<>> THEN TRUE
    ELSE IF Head(s) = Head(t) THEN StrLess(Tail(s), Tail(t))
    ELSE Ord(Head(s)) < Ord(Head(t))

---------------------------------------------------------------------------
(* Tables (DataFrames) and the pandas operations the program uses.         *)

ChurnFlagName == <<"c","h","u","r","n","_","f","l","a","g">>
ChurnCol == <<"c","h","u","r","n","_","s","t","a","t","u","s","_",
              "y","e","s","n","o">>
PaymentCol == <<"p","a","y","m","e","n","t","_","h","i","s","t","o","r","y",
                "_","o","n","t","i","m","e","d","e","l","a","y","e","d">>
YesStr == <<"y","e","s">>
NoStr == <<"n","o">>
NanStr == <<"n","a","n">>

\* A missing cell (NaN) of a column of strings.
NA == <<"<NA>">>

\* NaN in the numeric churn_flag column that Series.map builds.
NaNFlag == -1

NoError == "none"

\* main's view of no exception
NoFailure == [kind |-> NoError, at |-> "nowhere"]

HeadCols == 15       \* list(df.columns)[:15]
HeadValues == 10     \* value_counts().head(10)
Decimals == 1000     \* round(3), as a number of thousandths

HasColumn(t, name) == name \in Range(t.columns)

ColIndex(t, name) ==
    CHOOSE i \in DOMAIN t.columns :
        /\ t.columns[i] = name
        /\ \A j \in 1..(i - 1) : t.columns[j] # name

\* df[name]
Column(t, name) == t.data[ColIndex(t, name)]

\* df[name] = vals
SetColumn(t, name, vals) ==
    IF HasColumn(t, name)
    THEN [t EXCEPT !.data[ColIndex(t, name)] = vals]
    ELSE [columns |-> Append(t.columns, name), data |-> Append(t.data, vals)]

\* the copy left out: the same table object under another name
DfCopyAliased(h, ref) == [heap |-> h, ref |-> ref]

\* df.copy(): a new table object with the same contents
DfCopy(h, ref) == [heap |-> Append(h, h[ref]), ref |-> Len(h) + 1]

\* astype(str) on one cell
AsTypeStr(v) == IF v = NA THEN NanStr ELSE v

\* the churn cell stripped but not lower-cased
NormaliseChurnNoLower(v) == StrStrip(AsTypeStr(v))

\* astype(str).str.strip().str.lower() on one cell
NormaliseChurn(v) == StrLower(StrStrip(AsTypeStr(v)))

\* map({"yes": 1, "no": 0}) on one cell
MapYesNo(v) == IF v = YesStr THEN 1 ELSE IF v = NoStr THEN 0 ELSE NaNFlag

\* list(df.columns), the slice left out
FirstColumnsUncut(cols) == cols

\* list(df.columns)[:15]
FirstColumns(cols) ==
    SubSeq(cols, 1, IF Len(cols) < HeadCols THEN Len(cols) ELSE HeadCols)

\* the distinct elements of s in order of first appearance
RECURSIVE Distinct(_)
Distinct(s) ==
    IF s = <<>> THEN <<>>
    ELSE LET d == Distinct(SubSeq(s, 1, Len(s) - 1))
             x == s[Len(s)]
         IN  IF x \in Range(d) THEN d ELSE Append(d, x)

Count(s, x) == Cardinality({i \in DOMAIN s : s[i] = x})

\* stable sort of records by their field k, largest first
RECURSIVE InsertDesc(_, _)
InsertDesc(x, L) ==
    IF L = <<>> THEN <<x>>
    ELSE IF Head(L).k >= x.k THEN <<Head(L)>> \o InsertDesc(x, Tail(L))
    ELSE <<x>> \o L

RECURSIVE SortDesc(_)
SortDesc(s) ==
    IF s = <<>> THEN <<>>
    ELSE InsertDesc(s[Len(s)], SortDesc(SubSeq(s, 1, Len(s) - 1)))

\* stable sort of records by their field k, smallest first
RECURSIVE InsertAsc(_, _)
InsertAsc(x, L) ==
    IF L = <<>> THEN <<x>>
    ELSE IF Head(L).k <= x.k THEN <<Head(L)>> \o InsertAsc(x, Tail(L))
    ELSE <<x>> \o L

RECURSIVE SortAsc(_)
SortAsc(s) ==
    IF s = <<>> THEN <<>>
    ELSE InsertAsc(s[Len(s)], SortAsc(SubSeq(s, 1, Len(s) - 1)))

\* Series.value_counts(): each distinct non-missing value with the number of
\* rows holding it, most frequent first
value_counts(vals) ==
    LET present == SelectSeq(vals, LAMBDA v : v # NA)
        d == Distinct(present)
        s == SortDesc([i \in DOMAIN d |->
                          [k |-> Count(present, d[i]), v |-> d[i]]])
    IN  [i \in DOMAIN s |-> [value |-> s[i].v, count |-> s[i].k]]

\* the whole of value_counts(), .head(10) left out
HeadOfUncut(s) == s

\* .head(10)
HeadOf(s) ==
    SubSeq(s, 1, IF Len(s) < HeadValues THEN Len(s) ELSE HeadValues)

\* strings in increasing code-point order
RECURSIVE InsertStr(_, _)
InsertStr(x, L) ==
    IF L = <<>> THEN <<x>>
    ELSE IF StrLess(x, Head(L)) THEN <<x>> \o L
    ELSE <<Head(L)>> \o InsertStr(x, Tail(L))

RECURSIVE SortStr(_)
SortStr(s) == IF s = <<>> THEN <<>> ELSE InsertStr(Head(s), SortStr(Tail(s)))

\* the group keys without the rows whose value is missing
GroupKeysDropMissing(vals, dropna) ==
    SortStr(Distinct(SelectSeq(vals, LAMBDA v : v \notin {NA, NanStr})))

\* the group keys of groupby(col, dropna=...): the distinct values in sorted
\* order, the missing value last when it is kept
GroupKeys(vals, dropna) ==
    LET present == SelectSeq(vals, LAMBDA v : v # NA)
        keys == SortStr(Distinct(present))
    IN  IF dropna \/ NA \notin Range(vals) THEN keys ELSE Append(keys, NA)

\* the rows of a group
GroupRows(vals, key) == {i \in DOMAIN vals : vals[i] = key}

\* the sum of churn_flag over the rows of a group
RECURSIVE SumOver(_, _)
SumOver(flags, rows) ==
    IF rows = {} THEN 0
    ELSE LET i == CHOOSE j \in rows : TRUE
         IN  flags[i] + SumOver(flags, rows \ {i})

\* agg(users=("churn_flag", "size"), churned=("churn_flag", "sum"))
Agg(flags, rows) ==
    [users |-> Cardinality(rows), churned |-> SumOver(flags, rows)]

\* (churned / users).round(3), in thousandths, halves to the even neighbour
Round3(churned, users) ==
    LET q == (Decimals * churned) \div users
        r == (Decimals * churned) % users
    IN  IF 2 * r < users THEN q
        ELSE IF 2 * r > users THEN q + 1
        ELSE IF q % 2 = 0 THEN q ELSE q + 1

\* summary.sort_values("churn_rate"), ascending
sort_values_ascending(rows) ==
    LET s == SortAsc([i \in DOMAIN rows |-> [k |-> rows[i].churn_rate, v |-> rows[i]]])
    IN  [i \in DOMAIN s |-> s[i].v]

\* summary.sort_values("churn_rate", ascending=False); ties keep their order
sort_values(rows) ==
    LET s == SortDesc([i \in DOMAIN rows |-> [k |-> rows[i].churn_rate, v |-> rows[i]]])
    IN  [i \in DOMAIN s |-> s[i].v]

---------------------------------------------------------------------------
(* The stages of the pipeline.  Each takes the heap and a reference to the *)
(* caller's table and yields the heap afterwards, what it returns (ret)    *)
(* and the exception it raises (err, with its diagnostic payload).         *)

\* df.loc[rows, col]: the cells of the chosen rows, in row order
Loc(vals, rows) ==
    LET F[i \in 0..Len(vals)] ==
            IF i = 0 THEN <<>>
            ELSE IF i \in rows THEN Append(F[i - 1], vals[i]) ELSE F[i - 1]
    IN  F[Len(vals)]

standardise_columns(h, ref) ==
    LET c == DfCopy(h, ref)
        t == c.heap[c.ref]
        t2 == [t EXCEPT !.columns =
                   [i \in DOMAIN t.columns |-> to_snake_case(t.columns[i])]]
    IN  [heap |-> [c.heap EXCEPT ![c.ref] = t2], ret |-> c.ref,
         err |-> NoError, payload |-> <<>>]

map_churn_flag(h, ref, churn_col) ==
    LET c == DfCopy(h, ref)
        t == c.heap[c.ref]
    IN  IF ~HasColumn(t, churn_col)
        THEN [heap |-> c.heap, ret |-> 0, err |-> "KeyError",
              payload |-> FirstColumns(t.columns)]
        ELSE
          LET raw == Column(t, churn_col)
              t1 == SetColumn(t, churn_col,
                      [i \in DOMAIN raw |-> NormaliseChurn(raw[i])])
              col == Column(t1, churn_col)
              t2 == SetColumn(t1, ChurnFlagName,
                      [i \in DOMAIN col |-> MapYesNo(col[i])])
              flag == Column(t2, ChurnFlagName)
              h2 == [c.heap EXCEPT ![c.ref] = t2]
              isna == {i \in DOMAIN flag : flag[i] = NaNFlag}
              offending == Loc(Column(t2, churn_col), isna)
          IN  IF isna # {}
              THEN [heap |-> h2, ret |-> 0, err |-> "ValueError",
                    payload |-> HeadOf(value_counts(offending))]
              ELSE [heap |-> h2, ret |-> c.ref, err |-> NoError,
                    payload |-> <<>>]

churn_by_payment(h, ref, payment_col) ==
    IF ~HasColumn(h[ref], payment_col)
    THEN [heap |-> h, ret |-> <<>>, err |-> "KeyError",
          payload |-> FirstColumns(h[ref].columns)]
    ELSE
      LET c == DfCopy(h, ref)
          t == c.heap[c.ref]
          raw == Column(t, payment_col)
          t1 == SetColumn(t, payment_col,
                  [i \in DOMAIN raw |-> StrStrip(AsTypeStr(raw[i]))])
          col == Column(t1, payment_col)
          flag == Column(t1, ChurnFlagName)
          keys == GroupKeys(col, FALSE)
          grouped == [g \in DOMAIN keys |->
                        LET a == Agg(flag, GroupRows(col, keys[g]))
                        IN  [payment_status |-> keys[g], users |-> a.users,
                             churned |-> a.churned,
                             churn_rate |-> Round3(a.churned, a.users)]]
      IN  [heap |-> [c.heap EXCEPT ![c.ref] = t1],
           ret |-> sort_values(grouped), err |-> NoError, payload |-> <<>>]

---------------------------------------------------------------------------
(* The data/users.csv files the runs are given.                            *)

RawChurnHeader == <<"C","h","u","r","n"," ","S","t","a","t","u","s"," ",
                    "(","Y","e","s","/","N","o",")">>
RawPaymentHeader == <<"P","a","y","m","e","n","t"," ","H","i","s","t","o","r","y",
                      " ","(","O","n","-","T","i","m","e","/",
                      "D","e","l","a","y","e","d",")">>
OnTime == <<"O","n","-","t","i","m","e">>
Delayed == <<"D","e","l","a","y","e","d">>

YesForms == {<<"Y","e","s">>, <<"y","e","s"," ">>, <<" ","Y","E","S">>}
NoForms == {<<"N","o">>, <<" ","n","o">>, <<"N","O">>}
OtherForms == {<<" ","M","a","y","b","e">>, <<"m","a","y","b","e">>, NA}
ChurnVals == YesForms \cup NoForms \cup OtherForms

PayVals == {OnTime, <<" ">> \o OnTime \o <<" ">>, <<"o","n","-","t","i","m","e">>,
            Delayed, NA, NanStr}

Xs(n) == [j \in 1..n |-> "x"]

\* the i-th filler header and the i-th unmappable churn value
Filler(i) == <<"C","o","l"," ">> \o Xs(i)
BadValue(i) == <<" ","B">> \o Xs(i)

SeqsUpTo(S, n) == UNION {[1..m -> S] : m \in 0..n}

\* a table with the churn and payment headers (when asked for) around k
\* filler columns; rows[i] = <<churn value, payment value>>
MkTable(hasChurn, hasPay, k, rows) ==
    LET churn == IF hasChurn THEN <<RawChurnHeader>> ELSE <<>>
        pay == IF hasPay THEN <<RawPaymentHeader>> ELSE <<>>
    IN  [columns |-> churn \o [i \in 1..k |-> Filler(i)] \o pay,
         data |-> (IF hasChurn THEN <<[i \in DOMAIN rows |-> rows[i][1]]>> ELSE <<>>)
                  \o [i \in 1..k |-> [j \in DOMAIN rows |-> <<"x">>]]
                  \o (IF hasPay THEN <<[i \in DOMAIN rows |-> rows[i][2]]>> ELSE <<>>)]

\* tables that vary the churn values
ChurnTables ==
    {MkTable(TRUE, TRUE, 0, [i \in DOMAIN cs |-> <<cs[i], OnTime>>]) :
        cs \in SeqsUpTo(ChurnVals, MaxChurnRows)}

\* tables that vary the payment values under mappable churn values
PayTables ==
    {MkTable(TRUE, TRUE, 0, rows) :
        rows \in SeqsUpTo({<<"Y","e","s">>, <<"N","o">>} \X PayVals, MaxPayRows)}

\* tables that vary the columns
ColTables ==
    {MkTable(hc, hp, k, <<<<<<"Y","e","s">>, OnTime>>, <<<<"N","o">>, Delayed>>>>) :
        hc \in BOOLEAN, hp \in BOOLEAN, k \in 0..MaxFill}

\* tables with k distinct unmappable churn values, value d three times and
\* value e twice (0: none), after one mappable row
BadTables ==
    {MkTable(TRUE, TRUE, 0,
        LET cs == <<<<"Y","e","s">>>> \o [i \in 1..t[1] |-> BadValue(i)]
                  \o (IF t[2] > 0 THEN <<BadValue(t[2]), BadValue(t[2])>> ELSE <<>>)
                  \o (IF t[3] > 0 THEN <<BadValue(t[3])>> ELSE <<>>)
        IN  [i \in DOMAIN cs |-> <<cs[i], OnTime>>]) :
        t \in {u \in (0..MaxBad) \X (0..MaxBad) \X (0..MaxBad) :
                  u[2] <= u[1] /\ u[3] <= u[1] /\ (u[2] = u[3] => u[2] = 0)}}

InputTables == ChurnTables \cup PayTables \cup ColTables \cup BadTables

NoFile == [exists |-> FALSE, complete |-> FALSE, rows |-> <<>>]

---------------------------------------------------------------------------
(* main(): one run of the report.                                          *)

Init ==
    /\ pc = "start"
    /\ heap = <<>>
    /\ dfref = 0
    /\ err = NoFailure
    /\ payload = <<>>
    /\ summary = <<>>
    /\ \/ \E t \in InputTables :
             fs = [data |-> [exists |-> TRUE, table |-> <<t>>],
                   outdir |-> FALSE, csv |-> NoFile, png |-> NoFile]
       \/ \E d \in BOOLEAN :
             fs = [data |-> [exists |-> FALSE, table |-> <<>>],
                   outdir |-> d, csv |-> NoFile, png |-> NoFile]
    /\ figs = {}
    /\ nextfig = 1

\* an exception of kind e raised in `at` ends the run
Fail(e, at, p) ==
    /\ pc' = "failed"
    /\ err' = [kind |-> e, at |-> at]
    /\ payload' = p

\* OUTPUTS_DIR.mkdir(parents=True, exist_ok=True)
MakeOutputsDir ==
    /\ pc = "start"
    /\ fs' = [fs EXCEPT !.outdir = TRUE]
    /\ pc' = "dir_ready"
    /\ UNCHANGED <<heap, dfref, err, payload, summary, figs, nextfig>>

\* if not DATA_PATH.exists(): raise FileNotFoundError
MissingInput ==
    /\ pc = "dir_ready"
    /\ ~fs.data.exists
    /\ Fail("FileNotFoundError", "main", <<>>)
    /\ UNCHANGED <<heap, dfref, summary, fs, figs, nextfig>>

\* df = pd.read_csv(DATA_PATH)
ReadCsv ==
    /\ pc = "dir_ready"
    /\ fs.data.exists
    /\ heap' = Append(heap, fs.data.table[1])
    /\ dfref' = Len(heap) + 1
    /\ pc' = "loaded"
    /\ UNCHANGED <<err, payload, summary, fs, figs, nextfig>>

\* df = standardise_columns(df)
Standardise ==
    /\ pc = "loaded"
    /\ LET r == standardise_columns(heap, dfref)
       IN  /\ heap' = r.heap
           /\ dfref' = r.ret
    /\ pc' = "standardised"
    /\ UNCHANGED <<err, payload, summary, fs, figs, nextfig>>

\* df = map_churn_flag(df, churn_col="churn_status_yesno")
MapChurn ==
    /\ pc = "standardised"
    /\ LET r == map_churn_flag(heap, dfref, ChurnCol)
       IN  /\ heap' = r.heap
           /\ IF r.err = NoError
              THEN /\ dfref' = r.ret
                   /\ pc' = "mapped"
                   /\ UNCHANGED <<err, payload>>
              ELSE /\ Fail(r.err, "map_churn_flag", r.payload)
                   /\ UNCHANGED dfref
    /\ UNCHANGED <<summary, fs, figs, nextfig>>

\* summary = churn_by_payment(df, payment_col="payment_history_ontimedelayed")
Aggregate ==
    /\ pc = "mapped"
    /\ LET r == churn_by_payment(heap, dfref, PaymentCol)
       IN  /\ heap' = r.heap
           /\ summary' = r.ret
           /\ IF r.err = NoError
              THEN /\ pc' = "aggregated"
                   /\ UNCHANGED <<err, payload>>
              ELSE Fail(r.err, "churn_by_payment", r.payload)
    /\ UNCHANGED <<dfref, fs, figs, nextfig>>

\* summary.to_csv(OUTPUTS_DIR / "churn_by_payment.csv", index=False); the
\* write can fail before the file is created or part-way through it
WriteCsv ==
    /\ pc = "aggregated"
    /\ \E outcome \in {"ok", "open_fails", "write_fails"} :
          \/ /\ outcome = "ok"
             /\ fs' = [fs EXCEPT !.csv = [exists |-> TRUE, complete |-> TRUE,
                                          rows |-> summary]]
             /\ pc' = "csv_written"
             /\ UNCHANGED <<err, payload>>
          \/ /\ outcome = "open_fails"
             /\ Fail("OSError", "to_csv", <<>>)
             /\ UNCHANGED fs
          \/ /\ outcome = "write_fails"
             /\ fs' = [fs EXCEPT !.csv = [exists |-> TRUE, complete |-> FALSE,
                                          rows |-> <<>>]]
             /\ Fail("OSError", "to_csv", <<>>)
    /\ UNCHANGED <<heap, dfref, summary, figs, nextfig>>

\* save_chart(summary, outpath): plt.figure() opens a figure, bar/title/...
\* draw into it, savefig writes the image, plt.close() closes the figure; an
\* exception in drawing or saving leaves the function before plt.close()
save_chart(open, n, outcome) ==
    LET opened == open \cup {n}
    IN  IF outcome = "ok"
        THEN [figs |-> opened \ {n}, png |-> [exists |-> TRUE, complete |-> TRUE],
              err |-> NoError]
        ELSE IF outcome = "draw_fails"
        THEN [figs |-> opened, png |-> [exists |-> FALSE, complete |-> FALSE],
              err |-> "RuntimeError"]
        ELSE IF outcome = "save_fails_early"
        THEN [figs |-> opened, png |-> [exists |-> FALSE, complete |-> FALSE],
              err |-> "OSError"]
        ELSE [figs |-> opened, png |-> [exists |-> TRUE, complete |-> FALSE],
              err |-> "OSError"]

\* save_chart(summary, OUTPUTS_DIR / "churn_by_payment.png")
SaveChart ==
    /\ pc = "csv_written"
    /\ \E outcome \in {"ok", "draw_fails", "save_fails_early", "save_fails_late"} :
          LET r == save_chart(figs, nextfig, outcome)
          IN  /\ figs' = r.figs
              /\ nextfig' = nextfig + 1
              /\ IF r.png.exists
                 THEN fs' = [fs EXCEPT !.png = [exists |-> TRUE,
                                                complete |-> r.png.complete,
                                                rows |-> summary]]
                 ELSE UNCHANGED fs
              /\ IF r.err = NoError
                 THEN /\ pc' = "charted"
                      /\ UNCHANGED <<err, payload>>
                 ELSE Fail(r.err, "save_chart", <<>>)
    /\ UNCHANGED <<heap, dfref, summary>>

\* print("Saved outputs:") ... print(summary)
PrintSummary ==
    /\ pc = "charted"
    /\ pc' = "done"
    /\ UNCHANGED <<heap, dfref, err, payload, summary, fs, figs, nextfig>>

Next ==
    \/ MakeOutputsDir
    \/ MissingInput
    \/ ReadCsv
    \/ Standardise
    \/ MapChurn
    \/ Aggregate
    \/ WriteCsv
    \/ SaveChart
    \/ PrintSummary

Spec == Init /\ [][Next]_vars

---------------------------------------------------------------------------
(* standardise_columns applied twice, to tables whose single column label  *)
(* ranges over every string of at most MaxLen characters of NameAlphabet   *)
(* and the header "Churn Status (Yes/No)".                                 *)

NameAlphabet == {"A", "b", "_", "1", "(", " ", "\t"}

Names == SeqsUpTo(NameAlphabet, MaxLen) \cup {RawChurnHeader}

InitNames ==
    /\ pc = "names_raw"
    /\ \E s \in Names : heap = <<[columns |-> <<s>>, data |-> <<<<>>>>]>>
    /\ dfref = 1
    /\ err = NoFailure
    /\ payload = <<>>
    /\ summary = <<>>
    /\ fs = [data |-> [exists |-> FALSE, table |-> <<>>],
             outdir |-> FALSE, csv |-> NoFile, png |-> NoFile]
    /\ figs = {}
    /\ nextfig = 1

\* df = standardise_columns(df)
StandardiseOnce ==
    /\ pc = "names_raw"
    /\ LET r == standardise_columns(heap, dfref)
       IN  /\ heap' = r.heap
           /\ dfref' = r.ret
    /\ pc' = "names_once"
    /\ UNCHANGED <<err, payload, summary, fs, figs, nextfig>>

\* df = standardise_columns(df), on the table standardise_columns returned
StandardiseAgain ==
    /\ pc = "names_once"
    /\ LET r == standardise_columns(heap, dfref)
       IN  /\ heap' = r.heap
           /\ dfref' = r.ret
    /\ pc' = "names_twice"
    /\ UNCHANGED <<err, payload, summary, fs, figs, nextfig>>

NextNames == StandardiseOnce \/ StandardiseAgain

SpecNames == InitNames /\ [][NextNames]_vars

---------------------------------------------------------------------------
(* Properties.  In a run of main heap[1] is the table read from the file,  *)
(* heap[2] the table standardise_columns returned (map_churn_flag's        *)
(* argument), heap[3] map_churn_flag's table (churn_by_payment's argument  *)
(* when it was returned) and heap[4] churn_by_payment's working copy.      *)

AfterMap == {"mapped", "aggregated", "csv_written", "charted", "done"}
AfterAggregate == {"aggregated", "csv_written", "charted", "done"}

MapChurnCalled == pc \in AfterMap \/ (pc = "failed" /\ err.at # "main")

MapChurnReturned ==
    pc \in AfterMap \/ (pc = "failed" /\ err.at \notin {"main", "map_churn_flag"})

AggregateCalled ==
    \/ pc \in AfterAggregate
    \/ pc = "failed" /\ err.at \in {"churn_by_payment", "to_csv", "save_chart"}

AggregateReturned ==
    pc \in AfterAggregate \/ (pc = "failed" /\ err.at \in {"to_csv", "save_chart"})

\* C1: map_churn_flag on a table that has the churn column: when every raw
\* value is one of "Yes", "yes ", " YES", "No", " no", "NO" the call returns
\* a table whose churn_flag is 1 on the yes rows and 0 on the no rows;
\* when some row holds anything else (a missing value included) the call
\* raises the validation error and main gets no table.
C1_ChurnFlagMapping ==
    (MapChurnCalled /\ HasColumn(heap[2], ChurnCol)) =>
        LET raw == Column(heap[2], ChurnCol)
        IN  IF \A i \in DOMAIN raw : raw[i] \in YesForms \cup NoForms
            THEN /\ MapChurnReturned
                 /\ dfref = 3
                 /\ LET flag == Column(heap[3], ChurnFlagName)
                    IN  /\ DOMAIN flag = DOMAIN raw
                        /\ \A i \in DOMAIN raw :
                              flag[i] = IF raw[i] \in YesForms THEN 1 ELSE 0
            ELSE /\ pc = "failed"
                 /\ err = [kind |-> "ValueError", at |-> "map_churn_flag"]
                 /\ dfref = 2

C1_Witness ==
    /\ pc = "mapped"
    /\ {<<" ","Y","E","S">>, <<"y","e","s"," ">>, <<" ","n","o">>}
           \subseteq Range(Column(heap[2], ChurnCol))

\* what C2 calls a payment value after trimming, spelled out for PayVals
ClaimKey(v) == IF v = <<" ">> \o OnTime \o <<" ">> THEN OnTime ELSE v

\* C2: churn_by_payment returns exactly one summary row per distinct payment
\* value after trimming (case kept, the missing value a group of its own),
\* with users the number of rows of the group and churned the sum of their
\* churn_flag.
C2_OneRowPerPaymentValue ==
    AggregateReturned =>
        LET pay == Column(heap[3], PaymentCol)
            flag == Column(heap[3], ChurnFlagName)
            groups == {ClaimKey(pay[i]) : i \in DOMAIN pay}
            RowsOf(g) == {i \in DOMAIN pay : ClaimKey(pay[i]) = g}
        IN  /\ Len(summary) = Cardinality(groups)
            /\ \A g \in groups : \E r \in DOMAIN summary :
                  /\ g # NA => summary[r].payment_status = g
                  /\ summary[r].users = Cardinality(RowsOf(g))
                  /\ summary[r].churned = SumOver(flag, RowsOf(g))

RECURSIVE SumUsers(_)
SumUsers(rows) == IF rows = <<>> THEN 0 ELSE Head(rows).users + SumUsers(Tail(rows))

\* C3: when churn_by_payment succeeds, the users of the summary rows add up
\* to the number of rows of the table it was given.
C3_UsersSumToRowCount ==
    AggregateReturned => SumUsers(summary) = Len(Column(heap[3], PaymentCol))

C3_Witness ==
    /\ pc = "aggregated"
    /\ Len(summary) >= 2
    /\ Len(Column(heap[3], PaymentCol)) = 3
    /\ NA \in Range(Column(heap[3], PaymentCol))

NonIncreasing(rows) ==
    \A i \in 1..(Len(rows) - 1) : rows[i].churn_rate >= rows[i + 1].churn_rate

\* C4: the rows of the summary churn_by_payment returns, and the rows of the
\* churn_by_payment.csv main writes from it, are in non-increasing order of
\* churn_rate.
C4_SortedByChurnRate ==
    /\ AggregateReturned => NonIncreasing(summary)
    /\ (fs.csv.exists /\ fs.csv.complete) =>
           (fs.csv.rows = summary /\ NonIncreasing(fs.csv.rows))

C4_Witness ==
    /\ fs.csv.exists /\ fs.csv.complete
    /\ Len(fs.csv.rows) >= 2
    /\ fs.csv.rows[1].churn_rate > fs.csv.rows[2].churn_rate
    /\ StrLess(fs.csv.rows[2].payment_status, fs.csv.rows[1].payment_status)

IsFirstFifteen(p, cols) ==
    /\ Len(p) = IF Len(cols) < 15 THEN Len(cols) ELSE 15
    /\ \A i \in DOMAIN p : p[i] = cols[i]

\* C5: a call of map_churn_flag or churn_by_payment on a table without the
\* named column raises the missing-column error, returns no table, and
\* reports the table's first min(15, n) column names in table order; the
\* churn mapper never raises the validation error for such a table.
C5_MissingColumn ==
    /\ (MapChurnCalled /\ ~HasColumn(heap[2], ChurnCol)) =>
          /\ pc = "failed"
          /\ err = [kind |-> "KeyError", at |-> "map_churn_flag"]
          /\ dfref = 2
          /\ IsFirstFifteen(payload, heap[2].columns)
    /\ (AggregateCalled /\ ~HasColumn(heap[3], PaymentCol)) =>
          /\ pc = "failed"
          /\ err = [kind |-> "KeyError", at |-> "churn_by_payment"]
          /\ summary = <<>>
          /\ IsFirstFifteen(payload, heap[3].columns)

C5_Witness ==
    /\ pc = "failed"
    /\ err = [kind |-> "KeyError", at |-> "map_churn_flag"]
    /\ Len(heap[2].columns) > 15
    /\ Len(payload) = 15

ValidationFailed ==
    pc = "failed" /\ err = [kind |-> "ValueError", at |-> "map_churn_flag"]

\* C6 as amended: the validation error's payload lists the offending values
\* in their trimmed, lower-cased string form, each once, with the number of
\* rows whose value has that form, most frequent first and at most 10 of
\* them, none more frequent left out; yes and no are never listed.
C6_PayloadListsNormalisedValues ==
    ValidationFailed =>
        LET raw == Column(heap[2], ChurnCol)
            Form(i) == StrLower(StrStrip(AsTypeStr(raw[i])))
            bad == {Form(i) : i \in DOMAIN raw} \ {YesStr, NoStr}
            N(v) == Cardinality({i \in DOMAIN raw : Form(i) = v})
            listed == {payload[j].value : j \in DOMAIN payload}
        IN  /\ Len(payload) = IF Cardinality(bad) < 10 THEN Cardinality(bad) ELSE 10
            /\ listed \subseteq bad
            /\ \A j \in DOMAIN payload : payload[j].count = N(payload[j].value)
            /\ \A j, k \in DOMAIN payload :
                  j < k => /\ payload[j].count >= payload[k].count
                           /\ payload[j].value # payload[k].value
            /\ \A v \in bad \ listed : \A j \in DOMAIN payload :
                  payload[j].count >= N(v)

C6_Witness ==
    /\ ValidationFailed
    /\ Len(payload) = 10
    /\ Cardinality({Column(heap[2], ChurnCol)[i] :
                       i \in DOMAIN Column(heap[2], ChurnCol)}) > 11
    /\ payload[1].count = 3
    /\ payload[2].count = 2

\* C6: the validation error's payload lists offending raw values of the
\* churn column, as they appear in the input table (before trimming and
\* lower-casing; a missing value shown as "nan"), each with the number of
\* rows holding it.
C6_PayloadListsRawValues ==
    ValidationFailed =>
        LET col == Column(heap[2], ChurnCol)
            raw == [i \in DOMAIN col |-> IF col[i] = NA THEN NanStr ELSE col[i]]
        IN  \A j \in DOMAIN payload :
               /\ payload[j].value \in Range(raw)
               /\ payload[j].value \notin YesForms \cup NoForms
               /\ payload[j].count = Count(raw, payload[j].value)

\* C7: a run of main that ends in failure leaves neither
\* churn_by_payment.csv nor churn_by_payment.png in the outputs directory.
C7_NoPartialOutput ==
    pc = "failed" => (~fs.csv.exists /\ ~fs.png.exists)

\* C8: once save_chart has returned or failed, no figure it created is
\* still open.
C8_NoFigureLeftOpen ==
    pc \in {"charted", "done", "failed"} => figs = {}

SameTable(t, u) == t.columns = u.columns /\ t.data = u.data

\* C9: no step of the pipeline changes a table object that existed before
\* the step: the table passed to standardise_columns, map_churn_flag or
\* churn_by_payment has the same labels, columns and cells after the call,
\* whether the call returns or fails.
C9_CallerTableUnchanged ==
    [][\A i \in DOMAIN heap :
          i \in DOMAIN heap' /\ SameTable(heap'[i], heap[i])]_vars

C9_Witness ==
    /\ pc = "done"
    /\ Len(heap) = 4
    /\ heap[1].columns # heap[2].columns
    /\ ~HasColumn(heap[2], ChurnFlagName)
    /\ HasColumn(heap[3], ChurnFlagName)
    /\ Column(heap[2], ChurnCol) # Column(heap[3], ChurnCol)
    /\ Column(heap[3], PaymentCol) # Column(heap[4], PaymentCol)

\* C10: standardising an already standardised table leaves its column
\* names as they are, for every column name of the letters, digits,
\* underscores, punctuation and whitespace of NameAlphabet; and
\* "Churn Status (Yes/No)" is standardised to "churn_status_yesno".
C10_NormaliseIdempotent ==
    /\ pc = "names_twice" => heap[3].columns = heap[2].columns
    /\ (pc \in {"names_once", "names_twice"} /\ heap[1].columns = <<RawChurnHeader>>)
          => heap[2].columns = <<ChurnCol>>

C10_Witness ==
    /\ pc = "names_twice"
    /\ heap[1].columns = <<<<"A", " ", "(", "b">>>>
    /\ heap[2].columns = <<<<"a", "_", "b">>>>
    /\ heap[3].columns = heap[2].columns

=============================================================================
